---- MODULE Spec2Model ----
(***************************************************************************)
(* Model of the Figma shape plugin (src/unnamed/part_005): the colour      *)
(* helpers normalizeColor / hexToRgb, the shape factory generateShape, the *)
(* batch engine generateShapes and the message handler figma.ui.onmessage. *)
(*                                                                         *)
(* Conventions.  A JavaScript string is a sequence of one-character        *)
(* strings.  An optional JavaScript value is a sequence of length at most  *)
(* one: Undefined is <<>>, a present value v is <<v>>.  A property of a    *)
(* host node is Untouched (<<>>, the host's default is still there) or     *)
(* Assigned(v), v being the JavaScript value the code assigned.  A         *)
(* non-integer number is an exact fraction [num, den] in lowest terms.     *)
(***************************************************************************)
EXTENDS Integers, Sequences, FiniteSets, TLC

VARIABLES
    msg,        \* msg[p]: the message of request p
    proc,       \* proc[p]: position and locals of the handler run for request p
    figma,      \* the host: nodes created, page children, selection, viewport, closed
    hexArgs,    \* the set of strings hexToRgb has been called with
    calls,      \* the calls made so far, in order: of generateShape and of the host
    colorIn,    \* input of the colour helpers when they are exercised alone
    colorOp,    \* which colour helper was applied to colorIn
    colorOut    \* its result

vars == <<msg, proc, figma, hexArgs, calls, colorIn, colorOp, colorOut>>

----------------------------------------------------------------------------
(* JavaScript values *)

Undefined == <<>>

Val(v) == <<v>>

IsDefined(o) == o # <<>>

Get(o) == o[1]

Untouched == <<>>

Assigned(v) == <<v>>

RECURSIVE GCD(_, _)
GCD(a, b) == IF b = 0 THEN a ELSE GCD(b, a % b)

\* the number n/d (n >= 0, d > 0) in lowest terms
Frac(n, d) == [num |-> n \div GCD(n, d), den |-> d \div GCD(n, d)]

----------------------------------------------------------------------------
(* Characters *)

UpperLetters ==
    <<"A","B","C","D","E","F","G","H","I","J","K","L","M",
      "N","O","P","Q","R","S","T","U","V","W","X","Y","Z">>

LowerLetters ==
    <<"a","b","c","d","e","f","g","h","i","j","k","l","m",
      "n","o","p","q","r","s","t","u","v","w","x","y","z">>

ToLowerChar(c) ==
    IF \E i \in DOMAIN UpperLetters : UpperLetters[i] = c
    THEN LowerLetters[CHOOSE i \in DOMAIN UpperLetters : UpperLetters[i] = c]
    ELSE c

ToUpperChar(c) ==
    IF \E i \in DOMAIN LowerLetters : LowerLetters[i] = c
    THEN UpperLetters[CHOOSE i \in DOMAIN LowerLetters : LowerLetters[i] = c]
    ELSE c

\* String.prototype.toLowerCase
ToLowerCase(s) == [i \in DOMAIN s |-> ToLowerChar(s[i])]

HexDigits == <<"0","1","2","3","4","5","6","7","8","9","a","b","c","d","e","f">>

\* the character class [a-f\d] under the i flag
IsHexDigit(c) ==
    LET lower == ToLowerChar(c) IN \E i \in DOMAIN HexDigits : HexDigits[i] = lower

HexDigitValue(c) ==
    LET lower == ToLowerChar(c)
    IN  (CHOOSE i \in DOMAIN HexDigits : HexDigits[i] = lower) - 1

RadixHex == 16

\* parseInt(pair, 16) for a string of two hex digits
ParseInt16(pair) == HexDigitValue(pair[1]) * RadixHex + HexDigitValue(pair[2])

----------------------------------------------------------------------------
(* Colour helpers *)

Transparent == <<"t","r","a","n","s","p","a","r","e","n","t">>

colorNames ==
    <<
     [key |-> <<"t","r","a","n","s","p","a","r","e","n","t">>,
      value |-> <<"t","r","a","n","s","p","a","r","e","n","t">>],
     [key |-> <<"r","e","d">>,
      value |-> <<"#","f","f","0","0","0","0">>],
     [key |-> <<"g","r","e","e","n">>,
      value |-> <<"#","0","0","f","f","0","0">>],
     [key |-> <<"b","l","u","e">>,
      value |-> <<"#","0","0","0","0","f","f">>],
     [key |-> <<"b","l","a","c","k">>,
      value |-> <<"#","0","0","0","0","0","0">>],
     [key |-> <<"w","h","i","t","e">>,
      value |-> <<"#","f","f","f","f","f","f">>],
     [key |-> <<"g","r","a","y">>,
      value |-> <<"#","8","0","8","0","8","0">>],
     [key |-> <<"g","r","e","y">>,
      value |-> <<"#","8","0","8","0","8","0">>],
     [key |-> <<"y","e","l","l","o","w">>,
      value |-> <<"#","f","f","f","f","0","0">>],
     [key |-> <<"o","r","a","n","g","e">>,
      value |-> <<"#","f","f","a","5","0","0">>],
     [key |-> <<"p","u","r","p","l","e">>,
      value |-> <<"#","8","0","0","0","8","0">>],
     [key |-> <<"p","i","n","k">>,
      value |-> <<"#","f","f","c","0","c","b">>],
     [key |-> <<"b","r","o","w","n">>,
      value |-> <<"#","a","5","2","a","2","a">>],
     [key |-> <<"p","r","i","m","a","r","y">>,
      value |-> <<"#","0","0","7","b","f","f">>],
     [key |-> <<"s","e","c","o","n","d","a","r","y">>,
      value |-> <<"#","6","c","7","5","7","d">>],
     [key |-> <<"s","u","c","c","e","s","s">>,
      value |-> <<"#","2","8","a","7","4","5">>],
     [key |-> <<"d","a","n","g","e","r">>,
      value |-> <<"#","d","c","3","5","4","5">>],
     [key |-> <<"w","a","r","n","i","n","g">>,
      value |-> <<"#","f","f","c","1","0","7">>],
     [key |-> <<"i","n","f","o">>,
      value |-> <<"#","1","7","a","2","b","8">>],
     [key |-> <<"l","i","g","h","t">>,
      value |-> <<"#","f","8","f","9","f","a">>],
     [key |-> <<"d","a","r","k">>,
      value |-> <<"#","3","4","3","a","4","0">>]
    >>

\* values that are not strings, each written as the one-element tuple of the
\* text it converts to: the function Object and the object Object.prototype
ObjectFunction == << "function Object() { [native code] }" >>

ObjectPrototype == << "[object Object]" >>

\* the members colorNames inherits from Object.prototype under a name that
\* toLowerCase can produce
InheritedMembers ==
    << [key |-> <<"c","o","n","s","t","r","u","c","t","o","r">>, value |-> ObjectFunction],
       [key |-> <<"_","_","p","r","o","t","o","_","_">>, value |-> ObjectPrototype] >>

\* the own properties of colorNames followed by the inherited ones
ColorMembers == colorNames \o InheritedMembers

\* colorNames[k] is truthy
HasColorName(k) == \E i \in DOMAIN ColorMembers : ColorMembers[i].key = k

\* colorNames[k]
ColorNameValue(k) ==
    ColorMembers[CHOOSE i \in DOMAIN ColorMembers : ColorMembers[i].key = k].value

StartsWithHash(s) == Len(s) >= 1 /\ s[1] = "#"

\* a lookup of the name as written, without toLowerCase
normalizeColorCaseSensitive(color) ==
    IF color = Transparent THEN Transparent
    ELSE IF StartsWithHash(color) THEN color
    ELSE IF HasColorName(color) THEN ColorNameValue(color)
    ELSE color

normalizeColor(color) ==
    IF color = Transparent THEN Transparent
    ELSE IF StartsWithHash(color) THEN color
    ELSE IF HasColorName(ToLowerCase(color)) THEN ColorNameValue(ToLowerCase(color))
    ELSE color

HexGroupCount == 3

HexGroupLen == 2

\* the match of the pattern without its closing $ anchor
HexMatchOffsetsUnanchored(hex) ==
    { k \in {0, 1} :
        /\ k = 1 => StartsWithHash(hex)
        /\ Len(hex) >= k + 6
        /\ \A i \in 1 .. 6 : IsHexDigit(hex[k + i]) }

\* the offset after which /^#?([a-f\d]{2})([a-f\d]{2})([a-f\d]{2})$/i finds its
\* three groups in hex: 1 after a leading '#', 0 without one, none when no match
HexMatchOffsets(hex) ==
    { k \in {0, 1} :
        /\ k = 1 => StartsWithHash(hex)
        /\ Len(hex) = k + HexGroupCount * HexGroupLen
        /\ \A i \in 1 .. HexGroupCount * HexGroupLen : IsHexDigit(hex[k + i]) }

HexGroup(hex, k, g) == SubSeq(hex, k + HexGroupLen * (g - 1) + 1, k + HexGroupLen * g)

ByteMax == 255

NoColor == [r |-> Frac(0, 1), g |-> Frac(0, 1), b |-> Frac(0, 1)]

InvalidHexColor == "Invalid hex color"

NoError == ""

hexToRgb(hex) ==
    LET result == HexMatchOffsets(hex)
    IN  IF result = {}
        THEN [ok |-> FALSE, error |-> InvalidHexColor, color |-> NoColor]
        ELSE LET k == CHOOSE o \in result : TRUE
             IN  [ok |-> TRUE, error |-> NoError,
                  color |-> [r |-> Frac(ParseInt16(HexGroup(hex, k, 1)), ByteMax),
                             g |-> Frac(ParseInt16(HexGroup(hex, k, 2)), ByteMax),
                             b |-> Frac(ParseInt16(HexGroup(hex, k, 3)), ByteMax)]]

----------------------------------------------------------------------------
(* The host (the figma global) *)

\* the call op made by the handler run h.who, about entry or node n or nodes ids
Call(h, op, n, ids) ==
    [h EXCEPT !.calls = Append(@, [op |-> op, by |-> h.who, n |-> n, ids |-> ids])]

\* a scene node as the host creates it: every property still the host's default
NewNode(id, kind) ==
    [id |-> id, type |-> kind,
     x |-> Untouched, y |-> Untouched, width |-> Untouched, height |-> Untouched,
     fills |-> Untouched, strokes |-> Untouched, strokeWeight |-> Untouched,
     cornerRadius |-> Untouched, pointCount |-> Untouched, innerRadius |-> Untouched,
     characters |-> Untouched, fontSize |-> Untouched]

\* figma.createRectangle(), createEllipse(), ...: the host creates a node of the
\* kind in the document and returns it; h.last is the node returned.  (The host
\* puts a created node in the document at once; children lists only what the
\* plugin's own appendChild calls added to figma.currentPage.)
CreateNode(h, kind) ==
    Call([h EXCEPT !.nodes = Append(@, NewNode(Len(@) + 1, kind)),
                   !.last = Len(h.nodes) + 1],
         "create", Len(h.nodes) + 1, <<>>)

\* node.prop = value
SetProp(h, id, prop, value) == [h EXCEPT !.nodes[id][prop] = Assigned(value)]

\* the properties the host's node kinds have, as the code's `in` checks see them:
\* every kind the switch creates has resize, fills, strokes and strokeWeight
NodeHas(kind, prop) == prop \in {"resize", "fills", "strokes", "strokeWeight"}

\* figma.currentPage.appendChild(node)
AppendChild(h, id) == Call([h EXCEPT !.children = Append(@, id)], "appendChild", id, <<>>)

RECURSIVE AppendAll(_, _)
\* newNodes.forEach(node => figma.currentPage.appendChild(node))
AppendAll(h, ids) ==
    IF ids = <<>> THEN h ELSE AppendAll(AppendChild(h, Head(ids)), Tail(ids))

\* a selection that adds the nodes to what is already selected
SelectAndFocusAdding(h, ids) ==
    Call([Call([h EXCEPT !.selection = @ \o ids], "selection", 0, ids)
             EXCEPT !.viewport = ids],
         "viewport", 0, ids)

\* figma.currentPage.selection = ids; figma.viewport.scrollAndZoomIntoView(ids)
SelectAndFocus(h, ids) ==
    Call([Call([h EXCEPT !.selection = ids], "selection", 0, ids)
             EXCEPT !.viewport = ids],
         "viewport", 0, ids)

ClosePlugin(h) == Call([h EXCEPT !.closed = TRUE], "closePlugin", 0, <<>>)

----------------------------------------------------------------------------
(* generateShape *)

NoShape ==
    [type |-> "", x |-> Undefined, y |-> Undefined, width |-> Undefined,
     height |-> Undefined, fill |-> Undefined, stroke |-> Undefined,
     strokeWidth |-> Undefined, cornerRadius |-> Undefined, zIndex |-> Undefined,
     text |-> Undefined, fontSize |-> Undefined, pointCount |-> Undefined,
     innerRadius |-> Undefined, polygonPointCount |-> Undefined]

ShapeTypes == {"rectangle", "ellipse", "star", "polygon", "line", "frame", "text"}

UnsupportedShapeType == "Unsupported shape type"

FontLoadError == "font load failed"

\* JavaScript truthiness of an optional number, fraction and string
TruthyNum(o) == IsDefined(o) /\ Get(o) # 0

TruthyFrac(o) == IsDefined(o) /\ Get(o).num # 0

TruthyStr(o) == IsDefined(o) /\ Get(o) # <<>>

Ok(h) == [ok |-> TRUE, error |-> NoError, h |-> h]

Throw(h, e) == [ok |-> FALSE, error |-> e, h |-> h]

\* a default case that falls back to a rectangle instead of throwing
DefaultCaseRectangle(h, config) == Ok(CreateNode(h, "rectangle"))

\* default: throw new Error(`Unsupported shape type: ${config.type}`)
DefaultCase(h, config) == Throw(h, UnsupportedShapeType)

\* a polygon case that falls back on the star's pointCount
PolygonCaseReadsPointCount(h, config) ==
    LET h1 == CreateNode(h, "polygon")
    IN  Ok(IF TruthyNum(config.polygonPointCount)
           THEN SetProp(h1, h1.last, "pointCount", config.polygonPointCount)
           ELSE IF TruthyNum(config.pointCount)
           THEN SetProp(h1, h1.last, "pointCount", config.pointCount)
           ELSE h1)

\* case 'polygon': createPolygon, pointCount from polygonPointCount if truthy
PolygonCase(h, config) ==
    LET h1 == CreateNode(h, "polygon")
    IN  Ok(IF TruthyNum(config.polygonPointCount)
           THEN SetProp(h1, h1.last, "pointCount", config.polygonPointCount) ELSE h1)

\* the switch on config.type; for 'text' this is the part after the awaited
\* figma.loadFontAsync
CreateBase(h, config) ==
    IF config.type = "rectangle" THEN
        LET h1 == CreateNode(h, "rectangle")
        IN  Ok(IF IsDefined(config.cornerRadius)
               THEN SetProp(h1, h1.last, "cornerRadius", config.cornerRadius)
               ELSE h1)
    ELSE IF config.type = "ellipse" THEN Ok(CreateNode(h, "ellipse"))
    ELSE IF config.type = "star" THEN
        LET h1 == CreateNode(h, "star")
            h2 == IF TruthyNum(config.pointCount)
                  THEN SetProp(h1, h1.last, "pointCount", config.pointCount) ELSE h1
        IN  Ok(IF TruthyFrac(config.innerRadius)
               THEN SetProp(h2, h2.last, "innerRadius", config.innerRadius) ELSE h2)
    ELSE IF config.type = "polygon" THEN PolygonCase(h, config)
    ELSE IF config.type = "line" THEN Ok(CreateNode(h, "line"))
    ELSE IF config.type = "frame" THEN Ok(CreateNode(h, "frame"))
    ELSE IF config.type = "text" THEN
        LET h1 == CreateNode(h, "text")
            h2 == IF TruthyStr(config.text)
                  THEN SetProp(h1, h1.last, "characters", config.text) ELSE h1
        IN  Ok(IF TruthyNum(config.fontSize)
               THEN SetProp(h2, h2.last, "fontSize", config.fontSize) ELSE h2)
    ELSE DefaultCase(h, config)

\* node.x = config.x; node.y = config.y; if ('resize' in node) node.resize(w, h)
ApplyGeometry(h, id, config) ==
    LET h1 == SetProp(SetProp(h, id, "x", config.x), id, "y", config.y)
    IN  IF NodeHas(h.nodes[id].type, "resize")
        THEN SetProp(SetProp(h1, id, "width", config.width), id, "height", config.height)
        ELSE h1

\* a call hexToRgb(hex) made by generateShape
CallHexToRgb(h, hex) == [h EXCEPT !.hexArgs = @ \cup {hex}]

\* the "Apply fill color" block
ApplyFill(h, id, config) ==
    IF TruthyStr(config.fill) /\ Get(config.fill) # Transparent
       /\ NodeHas(h.nodes[id].type, "fills")
    THEN LET hexColor == normalizeColor(Get(config.fill))
         IN  IF hexColor # Transparent
             THEN LET rgb == hexToRgb(hexColor)
                      h1  == CallHexToRgb(h, hexColor)
                  IN  IF rgb.ok THEN Ok(SetProp(h1, id, "fills", rgb.color))
                      ELSE Throw(h1, rgb.error)
             ELSE Ok(h)
    ELSE Ok(h)

\* the "Apply stroke color" block
ApplyStroke(h, id, config) ==
    IF TruthyStr(config.stroke) /\ NodeHas(h.nodes[id].type, "strokes")
    THEN LET hexColor == normalizeColor(Get(config.stroke))
             rgb == hexToRgb(hexColor)
             h1  == CallHexToRgb(h, hexColor)
         IN  IF rgb.ok
             THEN LET h2 == SetProp(h1, id, "strokes", rgb.color)
                  IN  Ok(IF TruthyNum(config.strokeWidth)
                            /\ NodeHas(h.nodes[id].type, "strokeWeight")
                         THEN SetProp(h2, id, "strokeWeight", config.strokeWidth)
                         ELSE h2)
             ELSE Throw(h1, rgb.error)
    ELSE Ok(h)

\* generateShape(config) once its font, if it needs one, is loaded: the result
\* [ok, error, h]; on success h.last is the node returned
generateShape(h, config) ==
    LET base == CreateBase(h, config)
    IN  IF ~base.ok THEN base
        ELSE LET id   == base.h.last
                 fill == ApplyFill(ApplyGeometry(base.h, id, config), id, config)
             IN  IF ~fill.ok THEN fill
                 ELSE LET stroke == ApplyStroke(fill.h, id, config)
                      IN  IF ~stroke.ok THEN stroke
                          ELSE Ok([stroke.h EXCEPT !.last = id])

\* generateShape awaits figma.loadFontAsync before anything else for this type
NeedsFont(config) == config.type = "text"

----------------------------------------------------------------------------
(* generateShapes: the sort *)

\* a.zIndex ?? 0
ZOf(a) == IF IsDefined(a.zIndex) THEN Get(a.zIndex) ELSE 0

\* a comparator with its operands swapped
CompareZDescending(a, b) == ZOf(b) - ZOf(a)

\* the comparator (a, b) => aZ - bZ
CompareZ(a, b) == ZOf(a) - ZOf(b)

RECURSIVE InsertBeforeEquals(_, _)
\* an insertion that puts e in front of the elements it compares equal to
InsertBeforeEquals(s, e) ==
    IF s = <<>> THEN <<e>>
    ELSE IF ZOf(Head(s)) - ZOf(e) >= 0 THEN <<e>> \o s
    ELSE <<Head(s)>> \o InsertBeforeEquals(Tail(s), e)

RECURSIVE InsertStable(_, _)
\* e put into the sorted s behind every element that does not compare greater
InsertStable(s, e) ==
    IF s = <<>> THEN <<e>>
    ELSE IF CompareZ(Head(s), e) > 0 THEN <<e>> \o s
    ELSE <<Head(s)>> \o InsertStable(Tail(s), e)

RECURSIVE SortFrom(_, _)
SortFrom(sorted, rest) ==
    IF rest = <<>> THEN sorted
    ELSE SortFrom(InsertStable(sorted, Head(rest)), Tail(rest))

\* [...config.shapes].sort(comparator): Array.prototype.sort is stable
SortShapes(shapes) == SortFrom(<<>>, shapes)

----------------------------------------------------------------------------
(* The handler figma.ui.onmessage and the calls it awaits *)

Requests == {1, 2}

CreateStar == "create-star"

CreateShapeFromJson == "create-shape-from-json"

CreateShapes == "create-shapes"

\* the config literal of the create-star branch
StarConfig ==
    [NoShape EXCEPT !.type = "star", !.x = Val(50), !.y = Val(50),
                    !.width = Val(200), !.height = Val(200),
                    !.pointCount = Val(7), !.innerRadius = Val(Frac(3, 5)),
                    !.fill = Val(<<"r","e","d">>)]

\* the environment the code runs in: the host together with the record of the
\* hexToRgb calls; last is the node the latest create call returned, who the
\* handler run that is executing, input the message object it was called with
Env(f, args) ==
    [nodes |-> f.nodes, children |-> f.children, selection |-> f.selection,
     viewport |-> f.viewport, closed |-> f.closed, hexArgs |-> args, last |-> 0,
     calls |-> <<>>, who |-> 0, input |-> <<>>]

FigmaOf(h) ==
    [nodes |-> h.nodes, children |-> h.children, selection |-> h.selection,
     viewport |-> h.viewport, closed |-> h.closed]

\* a handler run before its message is delivered
Pending ==
    [pc |-> "pending", path |-> "", sortedShapes |-> <<>>, i |-> 1,
     nodes |-> <<>>, newNodes |-> <<>>, error |-> NoError, returned |-> FALSE]

Absent == [Pending EXCEPT !.pc = "absent"]

\* if (msg.type !== 'create-shape-from-json') figma.closePlugin()
\* a handler that closes the plugin whatever the message type
HandlerTailAlwaysCloses(h, l, type) ==
    [h |-> ClosePlugin(h), l |-> [l EXCEPT !.pc = "done"]]

\* the code after the three branches: closePlugin unless the message is a JSON request
HandlerTail(h, l, type) ==
    [h |-> IF type # CreateShapeFromJson THEN ClosePlugin(h) ELSE h,
     l |-> [l EXCEPT !.pc = "done"]]

\* a batch branch that sets the selection but does not focus the viewport
FinishBatchUnfocused(h, l) ==
    IF l.path = "multi" THEN
        HandlerTail([AppendAll(h, l.nodes) EXCEPT !.selection = l.nodes],
                    [l EXCEPT !.newNodes = l.nodes], CreateShapeFromJson)
    ELSE IF l.path = "single" THEN
        HandlerTail(SelectAndFocus(AppendChild(h, l.nodes[1]), <<l.nodes[1]>>),
                    [l EXCEPT !.newNodes = <<l.nodes[1]>>], CreateShapeFromJson)
    ELSE
        HandlerTail(SelectAndFocus(AppendChild(h, l.nodes[1]), <<l.nodes[1]>>),
                    [l EXCEPT !.newNodes = <<l.nodes[1]>>], CreateStar)

\* a batch branch that sets selection and viewport before it appends the nodes
FinishSelectsBeforeAppend(h, l) ==
    IF l.path = "multi" THEN
        HandlerTail(AppendAll(SelectAndFocus(h, l.nodes), l.nodes),
                    [l EXCEPT !.newNodes = l.nodes], CreateShapeFromJson)
    ELSE IF l.path = "single" THEN
        HandlerTail(SelectAndFocus(AppendChild(h, l.nodes[1]), <<l.nodes[1]>>),
                    [l EXCEPT !.newNodes = <<l.nodes[1]>>], CreateShapeFromJson)
    ELSE
        HandlerTail(SelectAndFocus(AppendChild(h, l.nodes[1]), <<l.nodes[1]>>),
                    [l EXCEPT !.newNodes = <<l.nodes[1]>>], CreateStar)

\* what the handler does with the result of the call it awaited
Finish(h, l) ==
    IF l.path = "multi" THEN
        \* generateShapes returns nodes; forEach appendChild, selection, viewport
        HandlerTail(SelectAndFocus(AppendAll(h, l.nodes), l.nodes),
                    [l EXCEPT !.newNodes = l.nodes], CreateShapeFromJson)
    ELSE IF l.path = "single" THEN
        HandlerTail(SelectAndFocus(AppendChild(h, l.nodes[1]), <<l.nodes[1]>>),
                    [l EXCEPT !.newNodes = <<l.nodes[1]>>], CreateShapeFromJson)
    ELSE
        \* the create-star branch
        HandlerTail(SelectAndFocus(AppendChild(h, l.nodes[1]), <<l.nodes[1]>>),
                    [l EXCEPT !.newNodes = <<l.nodes[1]>>], CreateStar)

\* a loop that passes over the entry after each one it has built
SettleSkipsNext(r, l) ==
    IF r.ok
    THEN [h |-> Call(r.h, "return", l.i, <<>>),
          l |-> [l EXCEPT !.nodes = Append(@, r.h.last), !.i = @ + 2, !.pc = "loop"]]
    ELSE [h |-> Call(r.h, "throw", l.i, <<>>),
          l |-> [l EXCEPT !.error = r.error, !.pc = "failed"]]

\* generateShape has settled: nodes.push(node) and on to the next entry, or the
\* rejection propagates through generateShapes and the handler
Settle(r, l) ==
    IF r.ok
    THEN [h |-> Call(r.h, "return", l.i, <<>>),
          l |-> [l EXCEPT !.nodes = Append(@, r.h.last), !.i = @ + 1, !.pc = "loop"]]
    ELSE [h |-> Call(r.h, "throw", l.i, <<>>),
          l |-> [l EXCEPT !.error = r.error, !.pc = "failed"]]

\* a generateShape that creates the text node without waiting for the font
StartEntryWithoutAwait(h, l) ==
    IF l.i > Len(l.sortedShapes)
    THEN IF l.path = "multi" /\ ~l.returned
         THEN [h |-> h, l |-> [l EXCEPT !.returned = TRUE, !.pc = "loop"]]
         ELSE Finish(h, l)
    ELSE Settle(generateShape(Call(h, "generateShape", l.i, <<>>), l.sortedShapes[l.i]), l)

\* the code run when the loop reaches entry i: the call generateShape(entry) up
\* to its await of the font (text) or to its end.  Past the last entry of a
\* batch generateShapes returns nodes and the handler stays suspended at its
\* `await generateShapes(...)`; its continuation (appendChild, selection,
\* viewport) runs in a later turn.  A single shape or the star has no such
\* second await: past its one entry the handler continues at once.
StartEntry(h, l) ==
    IF l.i > Len(l.sortedShapes)
    THEN IF l.path = "multi" /\ ~l.returned
         THEN [h |-> h, l |-> [l EXCEPT !.returned = TRUE, !.pc = "loop"]]
         ELSE Finish(h, l)
    ELSE IF NeedsFont(l.sortedShapes[l.i])
    THEN [h |-> Call(Call(h, "generateShape", l.i, <<>>), "loadFontAsync", l.i, <<>>),
          l |-> [l EXCEPT !.pc = "font"]]
    ELSE Settle(generateShape(Call(h, "generateShape", l.i, <<>>),
                              l.sortedShapes[l.i]), l)

\* a loop over config.shapes instead of sortedShapes
generateShapesUnsorted(h, l, config) ==
    StartEntry(h, [l EXCEPT !.path = "multi", !.nodes = <<>>, !.i = 1,
                            !.sortedShapes = Get(config.shapes)])

\* a generateShapes that sorts config.shapes itself instead of a copy of it
generateShapesInPlace(h, l, config) ==
    StartEntry([h EXCEPT !.input.config =
                    Val([config EXCEPT !.shapes = Val(SortShapes(Get(config.shapes)))])],
               [l EXCEPT !.path = "multi", !.nodes = <<>>, !.i = 1,
                         !.sortedShapes = SortShapes(Get(config.shapes))])

\* generateShapes(config) up to its first suspension
generateShapes(h, l, config) ==
    StartEntry(h, [l EXCEPT !.path = "multi", !.nodes = <<>>, !.i = 1,
                            !.sortedShapes = SortShapes(Get(config.shapes))])

RectSpacing == 150

Orange == [r |-> Frac(1, 1), g |-> Frac(1, 2), b |-> Frac(0, 1)]

RECURSIVE CreateRectanglesInclusive(_, _, _, _)
\* a loop that runs while i <= numberOfRectangles
CreateRectanglesInclusive(h, l, i, numberOfRectangles) ==
    IF i <= numberOfRectangles
    THEN LET h1 == CreateNode(h, "rectangle")
             h2 == SetProp(h1, h1.last, "x", Val(i * RectSpacing))
             h3 == SetProp(h2, h1.last, "fills", Orange)
         IN  CreateRectanglesInclusive(AppendChild(h3, h1.last),
                                       [l EXCEPT !.nodes = Append(@, h1.last)],
                                       i + 1, numberOfRectangles)
    ELSE [h |-> SelectAndFocus(h, l.nodes), l |-> l]

RECURSIVE CreateRectangles(_, _, _, _)
\* the loop of the create-shapes branch from index i on
CreateRectangles(h, l, i, numberOfRectangles) ==
    IF i < numberOfRectangles
    THEN LET h1 == CreateNode(h, "rectangle")
             h2 == SetProp(h1, h1.last, "x", Val(i * RectSpacing))
             h3 == SetProp(h2, h1.last, "fills", Orange)
         IN  CreateRectangles(AppendChild(h3, h1.last),
                              [l EXCEPT !.nodes = Append(@, h1.last)],
                              i + 1, numberOfRectangles)
    ELSE [h |-> SelectAndFocus(h, l.nodes), l |-> l]

\* figma.ui.onmessage(m) up to its first suspension
OnMessage(h, l, m) ==
    IF m.type = CreateStar THEN
        StartEntry(h, [l EXCEPT !.path = "star", !.sortedShapes = <<StarConfig>>])
    ELSE IF m.type = CreateShapeFromJson /\ IsDefined(m.config) THEN
        IF IsDefined(Get(m.config).shapes)
        THEN generateShapes(h, l, Get(m.config))
        ELSE StartEntry(h, [l EXCEPT !.path = "single",
                                     !.sortedShapes = <<Get(m.config).shape>>])
    ELSE IF m.type = CreateShapes THEN
        LET r == CreateRectangles(h, [l EXCEPT !.path = "count"], 0, m.count)
        IN  HandlerTail(r.h, [r.l EXCEPT !.newNodes = r.l.nodes], m.type)
    ELSE HandlerTail(h, l, m.type)

\* the state after one handler step took the environment to r.h and the run of p to r.l
Commit(p, r) ==
    /\ figma' = FigmaOf(r.h)
    /\ hexArgs' = r.h.hexArgs
    /\ calls' = r.h.calls
    /\ msg' = [msg EXCEPT ![p] = r.h.input]
    /\ proc' = [proc EXCEPT ![p] = r.l]
    /\ UNCHANGED <<colorIn, colorOp, colorOut>>

\* the environment as the handler run of p finds it
EnvOf(p) ==
    [Env(figma, hexArgs) EXCEPT !.calls = calls, !.who = p, !.input = msg[p]]

\* the UI posts message p and the handler runs to its first suspension
Deliver(p) ==
    /\ proc[p].pc = "pending"
    /\ Commit(p, OnMessage(EnvOf(p), proc[p], msg[p]))

\* the run of p continues after an await that did not wait for the host
Resume(p) ==
    /\ proc[p].pc = "loop"
    /\ Commit(p, StartEntry(EnvOf(p), proc[p]))

\* a resumption that builds the entry of whichever run asked for the font last
FontLoadedShared(p) ==
    /\ proc[p].pc = "font"
    /\ LET asked == SelectSeq(calls, LAMBDA e : e.op = "loadFontAsync")
           last  == asked[Len(asked)]
       IN  Commit(p, Settle(generateShape(Call(EnvOf(p), "fontLoaded", proc[p].i, <<>>),
                                          proc[last.by].sortedShapes[last.n]),
                            proc[p]))

\* figma.loadFontAsync resolves: generateShape goes on to createText and the rest
FontLoaded(p) ==
    /\ proc[p].pc = "font"
    /\ Commit(p, Settle(generateShape(Call(EnvOf(p), "fontLoaded", proc[p].i, <<>>),
                                      proc[p].sortedShapes[proc[p].i]), proc[p]))

\* figma.loadFontAsync rejects: the rejection propagates
FontFailed(p) ==
    /\ proc[p].pc = "font"
    /\ Commit(p, Settle(Throw(Call(EnvOf(p), "fontFailed", proc[p].i, <<>>),
                               FontLoadError), proc[p]))

Next ==
    \E p \in Requests :
        \/ Deliver(p)
        \/ Resume(p)
        \/ FontLoaded(p)
        \/ FontFailed(p)

----------------------------------------------------------------------------
(* The colour helpers exercised alone *)

\* hexToRgb(colorIn)
ApplyHexToRgb ==
    /\ colorOp = "none"
    /\ colorOp' = "hexToRgb"
    /\ colorOut' = hexToRgb(colorIn)
    /\ UNCHANGED <<msg, proc, figma, hexArgs, calls, colorIn>>

\* the stroke block on config.stroke = colorIn: entered when the string is
\* truthy, it calls hexToRgb(normalizeColor(colorIn)) with no test in between
ApplyResolve ==
    /\ colorOp = "none"
    /\ TruthyStr(Val(colorIn))
    /\ colorOp' = "resolve"
    /\ colorOut' = hexToRgb(normalizeColor(colorIn))
    /\ UNCHANGED <<msg, proc, figma, hexArgs, calls, colorIn>>

NextColor == ApplyHexToRgb \/ ApplyResolve

----------------------------------------------------------------------------
(* Inputs and specifications *)

MaxBatch == 3

MaxHexLen == 7

MaxCount == 2

Blue == <<"b","l","u","e">>

NewFigma ==
    [nodes |-> <<>>, children |-> <<>>, selection |-> <<>>, viewport |-> <<>>,
     closed |-> FALSE]

\* a message { type, count, config }: config is Undefined or the object, read
\* as a MultiShapeConfig (shapes, present or not) and as a ShapeConfig (shape)
Message(type, count, config) == [type |-> type, count |-> count, config |-> config]

Single(c) == Message(CreateShapeFromJson, 0, Val([shapes |-> Undefined, shape |-> c]))

Batch(B) == Message(CreateShapeFromJson, 0, Val([shapes |-> Val(B), shape |-> NoShape]))

NoMessage == Message("", 0, Undefined)

\* a shape with its geometry given
Shape(type, x, z) ==
    [NoShape EXCEPT !.type = type, !.x = Val(x), !.y = Val(0),
                    !.width = Val(10), !.height = Val(20), !.zIndex = z]

InitRest ==
    /\ figma = NewFigma
    /\ hexArgs = {}
    /\ calls = <<>>
    /\ colorIn = <<>>
    /\ colorOp = "idle"
    /\ colorOut = [ok |-> FALSE, error |-> NoError, color |-> NoColor]

InitOne(m) ==
    /\ msg = [p \in Requests |-> IF p = 1 THEN m ELSE NoMessage]
    /\ proc = [p \in Requests |-> IF p = 1 THEN Pending ELSE Absent]
    /\ InitRest

\* batches: entry k has x = k, so a node's x names the entry it was built from
BatchTypes == {"rectangle", "text", "kite"}

BatchZ == {Undefined, Val(-1), Val(0), Val(1)}

Batches ==
    UNION { { [k \in 1 .. n |-> [Shape(ty[k], k, z[k]) EXCEPT !.fill = Val(Blue)]] :
                ty \in [1 .. n -> BatchTypes], z \in [1 .. n -> BatchZ] } :
            n \in 0 .. MaxBatch }

\* a batch request, or a one-entry batch's shape sent as a single-shape request
InitBatch ==
    \E B \in Batches : InitOne(Batch(B)) \/ (Len(B) = 1 /\ InitOne(Single(B[1])))

SpecBatch == InitBatch /\ [][Next]_vars

\* single shapes: every type and an unknown one, every kind of colour value
ColorInputs ==
    { Undefined, Val(Blue), Val(<<"R","E","D">>), Val(<<"#","f","f","0","0","0","0">>),
      Val(Transparent), Val(<<"n","o","t","a","c","o","l","o","r">>),
      Val(<<"#","1","2">>), Val(<<>>),
      Val(<<"C","o","n","s","t","r","u","c","t","o","r">>) }

ShapeInputs ==
    { [Shape(ty, 5, Undefined) EXCEPT !.fill = f, !.stroke = s, !.strokeWidth = w,
                                      !.cornerRadius = r] :
        ty \in ShapeTypes \cup {"kite"}, f \in ColorInputs, s \in ColorInputs,
        w \in {Undefined, Val(2)}, r \in {Undefined, Val(4)} }

InitShape == \E c \in ShapeInputs : InitOne(Single(c)) \/ InitOne(Batch(<<c>>))

SpecShape == InitShape /\ [][Next]_vars

\* single shapes of every type with each of the position, the size and the
\* type-specific fields given or not
Flags == {"position", "size", "cornerRadius", "pointCount", "innerRadius",
          "polygonPointCount", "text", "fontSize"}

Given(on, flag, value) == IF flag \in on THEN Val(value) ELSE Undefined

FieldShape(ty, on) ==
    [NoShape EXCEPT !.type = ty,
                    !.x = Given(on, "position", 5), !.y = Given(on, "position", 6),
                    !.width = Given(on, "size", 10), !.height = Given(on, "size", 20),
                    !.cornerRadius = Given(on, "cornerRadius", 4),
                    !.pointCount = Given(on, "pointCount", 7),
                    !.innerRadius = Given(on, "innerRadius", Frac(3, 5)),
                    !.polygonPointCount = Given(on, "polygonPointCount", 6),
                    !.text = Given(on, "text", <<"h","i">>),
                    !.fontSize = Given(on, "fontSize", 24)]

FieldInputs == { FieldShape(ty, on) : ty \in ShapeTypes, on \in SUBSET Flags }

InitFields == \E c \in FieldInputs : InitOne(Single(c))

SpecFields == InitFields /\ [][Next]_vars

\* requests in flight together
TextShape == [Shape("text", 1, Undefined) EXCEPT !.text = Val(<<"h","i">>)]

RectShape == [Shape("rectangle", 2, Val(1)) EXCEPT !.fill = Val(Blue)]

LabelShape ==
    [Shape("text", 4, Val(-1)) EXCEPT !.text = Val(<<"y","o">>), !.fontSize = Val(24),
                                      !.fill = Val(<<"R","E","D">>)]

Messages ==
    { Message(CreateStar, 0, Undefined), Message("other", 0, Undefined),
      Message(CreateShapeFromJson, 0, Undefined),
      Single(RectShape), Single(TextShape),
      Batch(<<>>), Batch(<<RectShape, TextShape>>), Batch(<<TextShape, LabelShape>>),
      Batch(<<RectShape, Shape("kite", 3, Undefined)>>) }
    \cup { Message(CreateShapes, n, Undefined) : n \in -1 .. MaxCount }

Init ==
    /\ msg \in [Requests -> Messages]
    /\ proc = [p \in Requests |-> Pending]
    /\ InitRest

Spec == Init /\ [][Next]_vars

\* colour strings
HexAlphabet == {"#", "9", "a", "F", "g"}

HexInputs == UNION { [1 .. n -> HexAlphabet] : n \in 0 .. MaxHexLen }

RECURSIVE CaseVariants(_)
\* the spellings of s in every mix of upper and lower case
CaseVariants(s) ==
    IF s = <<>> THEN { <<>> }
    ELSE { <<c>> \o rest : c \in {Head(s), ToUpperChar(Head(s))},
                           rest \in CaseVariants(Tail(s)) }

NameInputs ==
    UNION { CaseVariants(colorNames[i].key) \cup {colorNames[i].value} :
            i \in DOMAIN colorNames }
    \cup UNION { CaseVariants(InheritedMembers[i].key) : i \in DOMAIN InheritedMembers }

InitColor ==
    /\ msg = [p \in Requests |-> NoMessage]
    /\ proc = [p \in Requests |-> Absent]
    /\ figma = NewFigma
    /\ hexArgs = {}
    /\ calls = <<>>
    /\ colorIn \in HexInputs \cup NameInputs
    /\ colorOp = "none"
    /\ colorOut = [ok |-> FALSE, error |-> NoError, color |-> NoColor]

SpecColor == InitColor /\ [][NextColor]_vars

----------------------------------------------------------------------------
(* Vocabulary of the properties *)

IsBatchRequest(p) ==
    /\ msg[p].type = CreateShapeFromJson
    /\ IsDefined(msg[p].config)
    /\ IsDefined(Get(msg[p].config).shapes)

IsSingleRequest(p) ==
    /\ msg[p].type = CreateShapeFromJson
    /\ IsDefined(msg[p].config)
    /\ ~IsDefined(Get(msg[p].config).shapes)

\* the batch of a batch request and the shape of a single-shape request
BatchOf(p) == Get(Get(msg[p].config).shapes)

ShapeOf(p) == Get(msg[p].config).shape

Settled(p) == proc[p].pc \in {"done", "failed"}

\* the layer index of an entry, a missing one counting as 0
LayerIndex(c) == IF c.zIndex = Undefined THEN 0 ELSE c.zIndex[1]

\* the place of entry j of B after a stable ascending sort by layer index
Rank(B, j) ==
    1 + Cardinality({ k \in 1 .. Len(B) :
                        \/ LayerIndex(B[k]) < LayerIndex(B[j])
                        \/ LayerIndex(B[k]) = LayerIndex(B[j]) /\ k < j })

\* the batch entry a node was built from, read off the x it was given
EntryOf(id) == figma.nodes[id].x[1][1]

\* the place in the returned sequence of the node built from entry k
PlaceOf(out, k) == CHOOSE i \in 1 .. Len(out) : EntryOf(out[i]) = k

AllSupported(B) == \A k \in 1 .. Len(B) : B[k].type \in ShapeTypes

----------------------------------------------------------------------------
(* Properties *)

\* C1: a batch request of valid configs that completes has returned exactly as
\* many nodes as the batch has entries, the node at the place an entry takes
\* after the sort by zIndex has the kind the entry's type names, and such a
\* batch fails only when a font cannot be loaded.
C1_SameLengthKindsInSortedOrder ==
    \A p \in Requests :
        IsBatchRequest(p) /\ AllSupported(BatchOf(p)) =>
            /\ proc[p].pc = "failed" => proc[p].error = FontLoadError
            /\ proc[p].pc = "done" =>
                /\ Len(proc[p].newNodes) = Len(BatchOf(p))
                /\ \A j \in 1 .. Len(BatchOf(p)) :
                       figma.nodes[proc[p].newNodes[Rank(BatchOf(p), j)]].type
                           = BatchOf(p)[j].type

C1_Witness ==
    /\ IsBatchRequest(1)
    /\ proc[1].pc = "done"
    /\ Len(BatchOf(1)) = 3
    /\ BatchOf(1)[1].type = "text" /\ BatchOf(1)[1].zIndex = Val(1)
    /\ BatchOf(1)[2].type = "rectangle" /\ BatchOf(1)[2].zIndex = Val(-1)
    /\ figma.nodes[proc[1].newNodes[1]].type = "rectangle"

\* C2: the nodes a batch request returns are in non-decreasing order of their
\* entries' zIndex with a missing zIndex counting as 0: the node of an entry
\* without zIndex comes after every node of a negative zIndex and before every
\* node of a positive one, and the first node has the lowest layer index.
C2_AscendingByZIndex ==
    \A p \in Requests :
        IsBatchRequest(p) /\ proc[p].pc = "done" =>
            LET B   == BatchOf(p)
                out == proc[p].newNodes
                z(i) == LayerIndex(B[EntryOf(out[i])])
            IN  /\ \A i, j \in 1 .. Len(out) : i < j => z(i) <= z(j)
                /\ \A i, j \in 1 .. Len(out) :
                       /\ B[EntryOf(out[i])].zIndex = Undefined
                       /\ B[EntryOf(out[j])].zIndex # Undefined
                       => /\ B[EntryOf(out[j])].zIndex[1] < 0 => j < i
                          /\ B[EntryOf(out[j])].zIndex[1] > 0 => i < j
                /\ out # <<>> => \A k \in 1 .. Len(B) : z(1) <= LayerIndex(B[k])

C2_Witness ==
    /\ IsBatchRequest(1)
    /\ proc[1].pc = "done"
    /\ Len(BatchOf(1)) = 3
    /\ BatchOf(1)[1].zIndex = Val(1)
    /\ BatchOf(1)[2].zIndex = Undefined
    /\ BatchOf(1)[3].zIndex = Val(-1)
    /\ EntryOf(proc[1].newNodes[1]) = 3
    /\ EntryOf(proc[1].newNodes[2]) = 2

\* C3: two entries of a batch with equal zIndex (both missing, or one missing
\* and the other 0, included) keep their input order in the returned sequence.
C3_EqualZIndexKeepInputOrder ==
    \A p \in Requests :
        IsBatchRequest(p) /\ proc[p].pc = "done" =>
            LET B   == BatchOf(p)
                out == proc[p].newNodes
            IN  \A j, k \in 1 .. Len(B) :
                    j < k /\ LayerIndex(B[j]) = LayerIndex(B[k])
                    => /\ \E i \in 1 .. Len(out) : EntryOf(out[i]) = j
                       /\ \E i \in 1 .. Len(out) : EntryOf(out[i]) = k
                       /\ PlaceOf(out, j) < PlaceOf(out, k)

C3_Witness ==
    /\ IsBatchRequest(1)
    /\ proc[1].pc = "done"
    /\ Len(BatchOf(1)) = 3
    /\ BatchOf(1)[1].zIndex = Undefined
    /\ BatchOf(1)[2].zIndex = Val(-1)
    /\ BatchOf(1)[3].zIndex = Val(0)
    /\ PlaceOf(proc[1].newNodes, 1) = 2
    /\ PlaceOf(proc[1].newNodes, 3) = 3

\* C4 (as claimed): when generateShape fails on an entry of a batch, the batch
\* request returns no nodes and the host is as it was before the request: no
\* node created, none appended to the page, selection and viewport unchanged.
C4_FailedBatchLeavesHostUntouched ==
    \A p \in Requests :
        IsBatchRequest(p) /\ proc[p].pc = "failed" =>
            /\ proc[p].newNodes = <<>>
            /\ figma.nodes = <<>>
            /\ figma.children = <<>>
            /\ figma.selection = <<>>
            /\ figma.viewport = <<>>

\* C5: a config of an unsupported type makes generateShape fail with the
\* unsupported-shape-type error without creating a node, alone and as an entry
\* of a batch whose other entries are valid; the batch then returns nothing,
\* and nothing is appended or selected, wherever the entry falls in the order.
C5_UnsupportedTypeFails ==
    \A p \in Requests :
        /\ IsSingleRequest(p) /\ ShapeOf(p).type \notin ShapeTypes
           /\ proc[p].pc # "pending"
           => /\ proc[p].pc = "failed"
              /\ proc[p].error = UnsupportedShapeType
              /\ proc[p].newNodes = <<>>
              /\ figma = NewFigma
        /\ IsBatchRequest(p) /\ ~AllSupported(BatchOf(p))
           => /\ proc[p].pc # "done"
              /\ proc[p].newNodes = <<>>
              /\ figma.children = <<>> /\ figma.selection = <<>>
              /\ figma.viewport = <<>>
              /\ proc[p].pc = "failed"
                 => /\ proc[p].error \in {UnsupportedShapeType, FontLoadError}
                    /\ proc[p].error = UnsupportedShapeType
                       => /\ proc[p].sortedShapes[proc[p].i].type \notin ShapeTypes
                          /\ Len(figma.nodes) = proc[p].i - 1

C5_Witness ==
    /\ IsBatchRequest(1)
    /\ Len(BatchOf(1)) = 3
    /\ BatchOf(1)[1].type = "kite" /\ BatchOf(1)[1].zIndex = Val(1)
    /\ BatchOf(1)[2].type = "rectangle"
    /\ proc[1].pc = "failed"
    /\ proc[1].error = UnsupportedShapeType
    /\ proc[1].i = 3

\* the characters a hex colour is written with, and what each digit is worth
HexChars ==
    {"0","1","2","3","4","5","6","7","8","9",
     "a","b","c","d","e","f","A","B","C","D","E","F"}

DigitValue ==
    "0" :> 0 @@ "1" :> 1 @@ "2" :> 2 @@ "3" :> 3 @@ "4" :> 4 @@ "5" :> 5 @@
    "6" :> 6 @@ "7" :> 7 @@ "8" :> 8 @@ "9" :> 9 @@
    "a" :> 10 @@ "b" :> 11 @@ "c" :> 12 @@ "d" :> 13 @@ "e" :> 14 @@ "f" :> 15 @@
    "A" :> 10 @@ "B" :> 11 @@ "C" :> 12 @@ "D" :> 13 @@ "E" :> 14 @@ "F" :> 15

\* s without its leading '#', if it has one
Digits(s) == IF s # <<>> /\ s[1] = "#" THEN Tail(s) ELSE s

WellFormedHex(s) == Len(Digits(s)) = 6 /\ \A i \in 1 .. 6 : Digits(s)[i] \in HexChars

\* the value of the g-th two-digit byte of the six digits d
ByteOf(d, g) == 16 * DigitValue[d[2 * g - 1]] + DigitValue[d[2 * g]]

\* the channel v is byte / 255, a number of [0, 1]
IsByteOver255(v, byte) ==
    /\ v.den > 0 /\ 0 <= v.num /\ v.num <= v.den
    /\ v.num * 255 = byte * v.den

\* the colour c is the triple of the bytes of the six digits d, each over 255
IsTripleOf(c, d) ==
    /\ IsByteOver255(c.r, ByteOf(d, 1))
    /\ IsByteOver255(c.g, ByteOf(d, 2))
    /\ IsByteOver255(c.b, ByteOf(d, 3))

ToUpperCase(s) == [i \in DOMAIN s |-> ToUpperChar(s[i])]

\* s spells the key in some mix of upper and lower case
SpellsKey(s, key) ==
    /\ Len(s) = Len(key)
    /\ \A i \in 1 .. Len(s) : s[i] \in {key[i], ToUpperChar(key[i])}

IsColorKey(s) == \E i \in DOMAIN colorNames : SpellsKey(s, colorNames[i].key)

\* a colour value that is neither "transparent", nor well-formed hex, nor a key
InvalidColorValue(o) ==
    /\ o # Undefined
    /\ o[1] # Transparent
    /\ ~WellFormedHex(o[1])
    /\ ~IsColorKey(o[1])

\* C6 (as claimed): a fill or stroke that is neither "transparent", nor a
\* well-formed 6-digit hex string, nor a key of the colour table makes
\* generateShape fail with the invalid-colour error, and no node is returned.
C6_InvalidColorAlwaysFails ==
    \A p \in Requests :
        /\ IsSingleRequest(p)
        /\ ShapeOf(p).type \in ShapeTypes
        /\ InvalidColorValue(ShapeOf(p).fill) \/ InvalidColorValue(ShapeOf(p).stroke)
        /\ Settled(p)
        /\ proc[p].error # FontLoadError
        => /\ proc[p].pc = "failed"
           /\ proc[p].error = InvalidHexColor
           /\ proc[p].newNodes = <<>>

\* a colour value generateShape is specified to accept
AcceptableColor(o) == o = Undefined \/ ~InvalidColorValue(o)

\* C7 (as claimed): when the fill or the stroke of an otherwise valid config is
\* "transparent", generateShape succeeds, leaves that paint unset and never
\* calls hexToRgb with "transparent"; for stroke exactly as for fill.
C7_TransparentIsNoPaint ==
    \A p \in Requests :
        /\ IsSingleRequest(p)
        /\ ShapeOf(p).type \in ShapeTypes
        /\ ShapeOf(p).fill = Val(Transparent) \/ ShapeOf(p).stroke = Val(Transparent)
        /\ AcceptableColor(ShapeOf(p).fill) /\ AcceptableColor(ShapeOf(p).stroke)
        /\ Settled(p)
        /\ proc[p].error # FontLoadError
        => /\ proc[p].pc = "done"
           /\ Transparent \notin hexArgs
           /\ ShapeOf(p).fill = Val(Transparent)
              => figma.nodes[proc[p].newNodes[1]].fills = Untouched
           /\ ShapeOf(p).stroke = Val(Transparent)
              => figma.nodes[proc[p].newNodes[1]].strokes = Untouched

RECURSIVE RunFrom(_, _)
\* the handler run r taken to its end, its font loading (fontOk) or not
RunFrom(r, fontOk) ==
    IF r.l.pc = "loop" THEN RunFrom(StartEntry(r.h, r.l), fontOk)
    ELSE IF r.l.pc = "font"
    THEN RunFrom(Settle(IF fontOk
                        THEN generateShape(Call(r.h, "fontLoaded", r.l.i, <<>>),
                                           r.l.sortedShapes[r.l.i])
                        ELSE Throw(Call(r.h, "fontFailed", r.l.i, <<>>), FontLoadError),
                        r.l), fontOk)
    ELSE r

\* the same shape sent in the other form of the create-shape-from-json request
OtherForm(p) ==
    IF IsBatchRequest(p) THEN Single(BatchOf(p)[1]) ELSE Batch(<<ShapeOf(p)>>)

\* C8: a shape sent alone and sent as a one-entry batch are handled alike: the
\* handler ends the same way, with the same node returned (same kind, position,
\* size, paints and shape-specific properties) and the host's nodes, page,
\* selection and viewport in the same state.
C8_SingleAndBatchAgree ==
    \A p \in Requests :
        /\ IsSingleRequest(p) \/ (IsBatchRequest(p) /\ Len(BatchOf(p)) = 1)
        /\ Settled(p)
        /\ \A q \in Requests \ {p} : proc[q].pc = "absent"
        => LET other == RunFrom(OnMessage(Env(NewFigma, {}), Pending, OtherForm(p)),
                                proc[p].error # FontLoadError)
           IN  /\ other.l.pc = proc[p].pc
               /\ other.l.error = proc[p].error
               /\ other.l.newNodes = proc[p].newNodes
               /\ FigmaOf(other.h) = figma

C8_Witness ==
    /\ IsSingleRequest(1)
    /\ proc[1].pc = "done"
    /\ ShapeOf(1).type = "text"
    /\ ShapeOf(1).fill = Val(Blue)
    /\ ShapeOf(1).stroke = Val(<<"R","E","D">>)
    /\ ShapeOf(1).strokeWidth = Val(2)
    /\ figma.children = <<1>>
    /\ figma.selection = <<1>>
    /\ figma.nodes[1].strokeWeight = Assigned(Val(2))

\* C9: a key of the colour table other than "transparent", in any mix of upper
\* and lower case, resolves to the triple of the hex string the table maps it
\* to, and that hex string resolves to the same triple; "red" gives (1, 0, 0).
C9_NamesResolveLikeTheirHex ==
    colorOp = "resolve" =>
        \A i \in DOMAIN colorNames :
            LET key == colorNames[i].key
                hex == colorNames[i].value
            IN  key # Transparent /\ (SpellsKey(colorIn, key) \/ colorIn = hex)
                => /\ colorOut.ok
                   /\ IsTripleOf(colorOut.color, Digits(hex))
                   /\ hexToRgb(hex).ok
                   /\ colorOut.color = hexToRgb(hex).color
                   /\ key = <<"r","e","d">>
                      => colorOut.color = [r |-> [num |-> 1, den |-> 1],
                                           g |-> [num |-> 0, den |-> 1],
                                           b |-> [num |-> 0, den |-> 1]]

C9_Witness ==
    /\ colorOp = "resolve"
    /\ colorIn = <<"o","R","a","N","g","e">>
    /\ colorOut.ok
    /\ colorOut.color = [r |-> [num |-> 1, den |-> 1],
                         g |-> [num |-> 11, den |-> 17],
                         b |-> [num |-> 0, den |-> 1]]

\* six-digit strings to compare an accepted string with
SixDigitStrings == [1 .. 6 -> {"9", "a", "F"}]

\* what hexToRgb makes of each of them, and the bytes each stands for
SixDigitTriples == [other \in SixDigitStrings |-> hexToRgb(other).color]

SixDigitBytes == [other \in SixDigitStrings |-> [g \in 1 .. 3 |-> ByteOf(other, g)]]

\* C10: hexToRgb accepts exactly an optional '#' followed by six hex digits of
\* either case and fails on every other string; each of r, g, b is the value of
\* its two-digit byte over 255, so the upper- and lower-case spellings give the
\* same triple and six digits of another value give another triple.
C10_HexToRgbDomainAndValue ==
    colorOp = "hexToRgb" =>
        /\ colorOut.ok <=> WellFormedHex(colorIn)
        /\ ~WellFormedHex(colorIn) => colorOut.error = InvalidHexColor
        /\ WellFormedHex(colorIn) =>
            /\ IsTripleOf(colorOut.color, Digits(colorIn))
            /\ hexToRgb(ToUpperCase(colorIn)) = colorOut
            /\ hexToRgb(ToLowerCase(colorIn)) = colorOut
            /\ LET bytes == [g \in 1 .. 3 |-> ByteOf(Digits(colorIn), g)]
               IN  \A other \in SixDigitStrings :
                       SixDigitBytes[other] # bytes
                       => SixDigitTriples[other] # colorOut.color

C10_Witness ==
    /\ colorOp = "hexToRgb"
    /\ colorIn = <<"#","F","a","9","9","a","F">>
    /\ colorOut.ok
    /\ colorOut.color = [r |-> [num |-> 50, den |-> 51],
                         g |-> [num |-> 3, den |-> 5],
                         b |-> [num |-> 35, den |-> 51]]

\* the calls the handler run of p has made, in order
Own(p) == SelectSeq(calls, LAMBDA e : e.by = p)

IsJsonRequest(p) == msg[p].type = CreateShapeFromJson /\ IsDefined(msg[p].config)

SceneOps == {"appendChild", "selection", "viewport"}

\* the calls that put the nodes ids on the page, select them and focus on them
SceneCalls(p, ids) ==
    [k \in 1 .. Len(ids) |-> [op |-> "appendChild", by |-> p, n |-> ids[k], ids |-> <<>>]]
    \o << [op |-> "selection", by |-> p, n |-> 0, ids |-> ids],
          [op |-> "viewport", by |-> p, n |-> 0, ids |-> ids] >>

\* C11: a create-shape-from-json request that succeeds ends with appendChild of
\* every returned node in the returned (sorted) order, then the selection set
\* to exactly those nodes, then the viewport focused on exactly those nodes,
\* all after the last generateShape has returned; until then it has made none
\* of these calls.
C11_AppendSelectFocusAfterAllReturned ==
    \A p \in Requests :
        IsJsonRequest(p) =>
            LET own  == Own(p)
                out  == proc[p].newNodes
                tail == SceneCalls(p, out)
                cut  == Len(own) - Len(tail)
            IN  /\ proc[p].pc # "done" => \A k \in 1 .. Len(own) : own[k].op \notin SceneOps
                /\ proc[p].pc = "done" =>
                    /\ cut >= 0
                    /\ SubSeq(own, cut + 1, Len(own)) = tail
                    /\ \A k \in 1 .. cut : own[k].op \notin SceneOps
                    /\ Len(out) = Len(proc[p].sortedShapes)
                    /\ Len(SelectSeq(SubSeq(own, 1, cut), LAMBDA e : e.op = "return"))
                           = Len(out)
                    /\ \A k \in 1 .. Len(out) :
                           figma.nodes[out[k]].x = Assigned(proc[p].sortedShapes[k].x)
                    /\ IsBatchRequest(p) =>
                           \A j \in 1 .. Len(BatchOf(p)) :
                               proc[p].sortedShapes[Rank(BatchOf(p), j)] = BatchOf(p)[j]
                    /\ SelectSeq(figma.children, LAMBDA id : \E k \in 1 .. Len(out) : out[k] = id)
                           = out

C11_Witness ==
    /\ msg[1] = Batch(<<TextShape, LabelShape>>)
    /\ msg[2] = Batch(<<RectShape, TextShape>>)
    /\ proc[1].pc = "done" /\ proc[2].pc = "done"
    /\ calls[Len(calls)] = [op |-> "viewport", by |-> 1, n |-> 0, ids |-> proc[1].newNodes]
    /\ figma.nodes[proc[1].newNodes[1]].x = Assigned(Val(4))
    /\ figma.nodes[proc[1].newNodes[1]].id > figma.nodes[proc[2].newNodes[2]].id

\* the positions in s of the calls with operation op
CallsOf(s, op) == {k \in 1 .. Len(s) : s[k].op = op}

\* C12: once the handler has processed a message, it has called closePlugin
\* exactly when the message type is not 'create-shape-from-json'; the close is
\* the last call of the run, after every appendChild of that message; a JSON
\* request, single or batch, never closes the plugin, and no run closes it
\* before it has completed.
C12_ClosedIffNotJsonRequest ==
    /\ \A p \in Requests :
        LET own == Own(p)
            closes == CallsOf(own, "closePlugin")
        IN  /\ proc[p].pc # "done" => closes = {}
            /\ msg[p].type = CreateShapeFromJson => closes = {}
            /\ (proc[p].pc = "done" /\ msg[p].type # CreateShapeFromJson) =>
                   /\ closes = {Len(own)}
                   /\ \A k \in CallsOf(own, "appendChild") : k < Len(own)
                   /\ Cardinality(CallsOf(own, "appendChild")) = Len(proc[p].newNodes)
    /\ figma.closed <=>
           \E p \in Requests : proc[p].pc = "done" /\ msg[p].type # CreateShapeFromJson

C12_Witness ==
    /\ msg[1].type = CreateStar /\ proc[1].pc = "done"
    /\ IsBatchRequest(2) /\ proc[2].pc = "done" /\ Len(proc[2].newNodes) = 2
    /\ Len(proc[1].newNodes) = 1
    /\ calls[Len(calls)] = [op |-> "closePlugin", by |-> 1, n |-> 0, ids |-> <<>>]
    /\ calls[Len(calls) - 3].op = "appendChild"
    /\ figma.closed

\* the calls of s with operation op, in order
CallSeq(s, op) == SelectSeq(s, LAMBDA e : e.op = op)

\* C13: a create-shapes message with count n creates exactly n rectangles (none
\* when n is 0 or negative) without calling generateShape; the i-th, from 0,
\* has x = 150 * i and the orange fill (1, 0.5, 0) and nothing else assigned;
\* they are appended in index order and selection and viewport are set to
\* exactly those nodes.
C13_CreateShapesMakesCountOrangeRectangles ==
    \A p \in Requests :
        (msg[p].type = CreateShapes /\ proc[p].pc = "done") =>
            LET own == Own(p)
                out == proc[p].newNodes
                n   == IF msg[p].count > 0 THEN msg[p].count ELSE 0
            IN  /\ Len(out) = n
                /\ CallSeq(own, "generateShape") = <<>>
                /\ [k \in 1 .. n |-> CallSeq(own, "create")[k].n] = out
                /\ Len(CallSeq(own, "create")) = n
                /\ [k \in 1 .. n |-> CallSeq(own, "appendChild")[k].n] = out
                /\ Len(CallSeq(own, "appendChild")) = n
                /\ CallSeq(own, "selection")
                       = << [op |-> "selection", by |-> p, n |-> 0, ids |-> out] >>
                /\ CallSeq(own, "viewport")
                       = << [op |-> "viewport", by |-> p, n |-> 0, ids |-> out] >>
                /\ SelectSeq(figma.children, LAMBDA id : \E k \in 1 .. n : out[k] = id) = out
                /\ \A k \in 1 .. n :
                       figma.nodes[out[k]] =
                           [NewNode(out[k], "rectangle") EXCEPT
                                !.x = Assigned(Val(150 * (k - 1))),
                                !.fills = Assigned([r |-> [num |-> 1, den |-> 1],
                                                    g |-> [num |-> 1, den |-> 2],
                                                    b |-> [num |-> 0, den |-> 1]])]

C13_Witness ==
    /\ msg[1] = Message(CreateShapes, 2, Undefined) /\ proc[1].pc = "done"
    /\ msg[2] = Message(CreateShapes, -1, Undefined) /\ proc[2].pc = "done"
    /\ Len(proc[1].newNodes) = 2 /\ proc[2].newNodes = <<>>
    /\ figma.nodes[proc[1].newNodes[2]].x = Assigned(Val(150))
    /\ figma.selection = <<>>

\* a node without the identity the host gave it
Anonymous(node) == [node EXCEPT !.id = 0]

\* the nodes with the ids in ids, in that order, without their identities
Built(nodes, ids) == [k \in 1 .. Len(ids) |-> Anonymous(nodes[ids[k]])]

\* the run of the request of p alone on a fresh host, its fonts loading
Alone(p) == RunFrom(OnMessage(Env(NewFigma, {}), Pending, msg[p]), TRUE)

\* C14: when two batch requests interleave at their font loads, each
\* generateShapes works on its own sorted copy and its own node list: the nodes
\* it has built so far are those of the first entries of its own batch in its
\* own sorted order, and the nodes it returns are the ones it returns when it
\* runs alone.
C14_InterleavedBatchesKeepTheirOwnNodes ==
    \A p \in Requests :
        (IsBatchRequest(p) /\ proc[p].pc \in {"loop", "font", "done"}) =>
            LET alone == Alone(p)
                mine  == Built(figma.nodes, proc[p].nodes)
                solo  == Built(alone.h.nodes, alone.l.nodes)
            IN  /\ proc[p].sortedShapes = alone.l.sortedShapes
                /\ Len(mine) <= Len(solo)
                /\ mine = SubSeq(solo, 1, Len(mine))
                /\ proc[p].pc = "done" =>
                       /\ mine = solo
                       /\ Built(figma.nodes, proc[p].newNodes) = solo

C14_Witness ==
    /\ msg[1] = Batch(<<TextShape, LabelShape>>)
    /\ msg[2] = Batch(<<RectShape, TextShape>>)
    /\ proc[1].pc = "done" /\ proc[2].pc = "done"
    /\ \E i, j, k \in 1 .. Len(calls) :
           /\ i < j /\ j < k
           /\ calls[i].op = "loadFontAsync" /\ calls[i].by = 1 /\ calls[i].n = 1
           /\ calls[j].op = "loadFontAsync" /\ calls[j].by = 2
           /\ calls[k].op = "fontLoaded" /\ calls[k].by = 1 /\ calls[k].n = 1
    /\ figma.nodes[proc[1].newNodes[1]].characters = Assigned(Val(<<"y","o">>))
    /\ figma.nodes[proc[2].newNodes[2]].characters # Assigned(Val(<<"y","o">>))

\* C15: generateShapes sorts a copy: no step of a batch request, whether the
\* call goes on, returns or fails, changes the message the caller passed, so
\* its shapes array keeps its entries, their order and every field of every
\* config.
C15_BatchInputNeverModified == [][msg' = msg]_vars

C15_Witness ==
    /\ IsBatchRequest(1)
    /\ Len(BatchOf(1)) = MaxBatch
    /\ proc[1].pc = "done"
    /\ proc[1].sortedShapes # BatchOf(1)
    /\ proc[1].sortedShapes = SortShapes(BatchOf(1))
    /\ figma.nodes[proc[1].newNodes[1]].x = Assigned(BatchOf(1)[MaxBatch].x)

FactoryOps == {"generateShape", "return", "throw"}

\* the calls of and returns from generateShape in s, in order
FactoryCalls(s) == SelectSeq(s, LAMBDA e : e.op \in FactoryOps)

\* the entry generateShape is working on after the calls s (0 when it is in no call)
OpenEntry(s) ==
    LET f == FactoryCalls(s)
    IN  IF f # <<>> /\ f[Len(f)].op = "generateShape" THEN f[Len(f)].n ELSE 0

\* C16: within one generateShapes call, generateShape is called once for each
\* entry of the sorted copy, in sorted order, and the call for entry i + 1 is
\* not made before the call for entry i has returned; everything the call for
\* an entry does (the font load, the host node creation) lies between that
\* call and its return, and a failure ends the loop.
C16_OneEntryAtATimeInSortedOrder ==
    \A p \in Requests :
        IsBatchRequest(p) =>
            LET own == Own(p)
                f   == FactoryCalls(own)
                B   == BatchOf(p)
            IN  /\ \A k \in 1 .. Len(f) :
                       IF k % 2 = 1
                       THEN f[k].op = "generateShape" /\ f[k].n = (k + 1) \div 2
                       ELSE /\ f[k].op \in {"return", "throw"} /\ f[k].n = k \div 2
                            /\ f[k].op = "throw" => k = Len(f)
                /\ Len(f) <= 2 * Len(B)
                /\ \A j \in 1 .. Len(own) :
                       own[j].op \in {"create", "loadFontAsync", "fontLoaded", "fontFailed"}
                       => /\ OpenEntry(SubSeq(own, 1, j)) > 0
                          /\ own[j].op # "create" =>
                                 own[j].n = OpenEntry(SubSeq(own, 1, j))
                /\ \A k \in 1 .. Len(proc[p].nodes) :
                       \E j \in 1 .. Len(own) :
                           /\ own[j].op = "create" /\ own[j].n = proc[p].nodes[k]
                           /\ OpenEntry(SubSeq(own, 1, j)) = k
                           /\ figma.nodes[own[j].n].type = proc[p].sortedShapes[k].type
                           /\ figma.nodes[own[j].n].x = Assigned(proc[p].sortedShapes[k].x)
                /\ Len(CallSeq(own, "create")) <= Len(CallSeq(own, "generateShape"))
                /\ proc[p].pc \in {"loop", "font", "done", "failed"} =>
                       /\ proc[p].sortedShapes = SortShapes(B)
                       /\ \A j \in 1 .. Len(B) : proc[p].sortedShapes[Rank(B, j)] = B[j]
                /\ proc[p].pc = "done" =>
                       /\ Len(f) = 2 * Len(B)
                       /\ Len(CallSeq(own, "create")) = Len(B)
                       /\ Len(proc[p].nodes) = Len(B)
                /\ proc[p].pc = "font" =>
                       /\ OpenEntry(own) = proc[p].i
                       /\ own[Len(own)].op = "loadFontAsync"

C16_Witness ==
    /\ IsBatchRequest(1)
    /\ Len(BatchOf(1)) = MaxBatch
    /\ proc[1].pc = "done"
    /\ proc[1].sortedShapes # BatchOf(1)
    /\ \A k \in 1 .. MaxBatch : BatchOf(1)[k].type = "text"
    /\ Len(CallSeq(calls, "fontLoaded")) = MaxBatch
    /\ Len(FactoryCalls(calls)) = 2 * MaxBatch

\* the last n calls of s
LastCalls(s, n) == SubSeq(s, Len(s) - n + 1, Len(s))

\* C17: for a text config the font load is started first, and the text node is
\* created -- and only then its characters and font size assigned -- after it
\* has completed; while it is pending no node of the entry exists; when it
\* fails, generateShape fails with that error and has created no node and
\* assigned nothing.
C17_FontLoadedBeforeTextNode ==
    \A p \in Requests :
        LET own == Own(p)
            i   == proc[p].i
        IN  /\ \A j \in 1 .. Len(own) :
                   (own[j].op = "create" /\ figma.nodes[own[j].n].type = "text") =>
                       /\ j > 3
                       /\ own[j - 1].op = "fontLoaded"
                       /\ own[j - 2].op = "loadFontAsync"
                       /\ own[j - 3].op = "generateShape"
                       /\ own[j - 1].n = own[j - 3].n /\ own[j - 2].n = own[j - 3].n
                       /\ proc[p].sortedShapes[own[j - 3].n].type = "text"
            /\ \A j \in 1 .. Len(own) :
                   own[j].op = "generateShape" /\ proc[p].sortedShapes[own[j].n].type = "text"
                   => j < Len(own) /\ own[j + 1].op = "loadFontAsync"
            /\ proc[p].pc = "font" =>
                   /\ proc[p].sortedShapes[i].type = "text"
                   /\ own[Len(own)] = [op |-> "loadFontAsync", by |-> p, n |-> i, ids |-> <<>>]
                   /\ CallSeq(own, "create")
                          = [k \in 1 .. i - 1 |->
                                [op |-> "create", by |-> p, n |-> proc[p].nodes[k], ids |-> <<>>]]
            /\ (Len(own) > 1 /\ own[Len(own) - 1].op = "fontFailed") =>
                   /\ proc[p].pc = "failed"
                   /\ proc[p].error = FontLoadError
                   /\ LastCalls(own, 4) =
                          << [op |-> "generateShape", by |-> p, n |-> i, ids |-> <<>>],
                             [op |-> "loadFontAsync", by |-> p, n |-> i, ids |-> <<>>],
                             [op |-> "fontFailed", by |-> p, n |-> i, ids |-> <<>>],
                             [op |-> "throw", by |-> p, n |-> i, ids |-> <<>>] >>
                   /\ Len(CallSeq(own, "create")) = i - 1
                   /\ Len(proc[p].nodes) = i - 1
            /\ proc[p].error = FontLoadError =>
                   Len(own) > 1 /\ own[Len(own) - 1].op = "fontFailed"
            /\ \A id \in 1 .. Len(figma.nodes) :
                   \E j \in 1 .. Len(calls) : calls[j].op = "create" /\ calls[j].n = id

C17_Witness ==
    /\ msg[1] = Batch(<<TextShape, LabelShape>>)
    /\ proc[2].pc = "pending"
    /\ proc[1].pc = "failed" /\ proc[1].error = FontLoadError
    /\ proc[1].i = 2
    /\ Len(figma.nodes) = 1
    /\ figma.nodes[1].type = "text"
    /\ figma.nodes[1].characters = Assigned(Val(<<"y","o">>))
    /\ figma.nodes[1].fontSize = Assigned(Val(24))
    /\ Len(CallSeq(calls, "fontLoaded")) = 1
    /\ figma.children = <<>>

\* the node a completed single-shape request produced
NodeOf(p) == figma.nodes[proc[p].newNodes[1]]

\* C18: generateShape sets x and y exactly when the config gives a position and
\* otherwise leaves the host's default; it sets the size exactly when the
\* config gives one and the node can be resized and otherwise leaves the
\* host's default; a missing position or size never makes it fail.
C18_GeometrySetOnlyWhenGiven ==
    \A p \in Requests :
        IsSingleRequest(p) =>
            /\ proc[p].pc = "failed" => proc[p].error = FontLoadError
            /\ proc[p].pc = "done" =>
                   LET c == ShapeOf(p)
                       node == NodeOf(p)
                   IN  /\ node.x = IF IsDefined(c.x) THEN Assigned(c.x) ELSE Untouched
                       /\ node.y = IF IsDefined(c.y) THEN Assigned(c.y) ELSE Untouched
                       /\ node.width = IF IsDefined(c.width) /\ NodeHas(node.type, "resize")
                                       THEN Assigned(c.width) ELSE Untouched
                       /\ node.height = IF IsDefined(c.height) /\ NodeHas(node.type, "resize")
                                        THEN Assigned(c.height) ELSE Untouched

\* C19: a stroke weight in the config is set on the node exactly when the node
\* has a stroke weight, with or without a stroke colour; a corner radius in the
\* config is set exactly when the kind has corner radius; an attribute the
\* kind does not have is left untouched and raises no error.
C19_StrokeWeightAndCornerRadiusWhenSupported ==
    \A p \in Requests :
        (IsSingleRequest(p) /\ proc[p].pc = "done") =>
            LET c == ShapeOf(p)
                node == NodeOf(p)
            IN  /\ node.strokeWeight =
                       IF IsDefined(c.strokeWidth) /\ NodeHas(node.type, "strokeWeight")
                       THEN Assigned(c.strokeWidth) ELSE Untouched
                /\ node.cornerRadius =
                       IF IsDefined(c.cornerRadius) /\ node.type = "rectangle"
                       THEN Assigned(c.cornerRadius) ELSE Untouched

\* the config without the fields that do not apply to its type
Relevant(c) ==
    [c EXCEPT !.pointCount = IF c.type = "star" THEN @ ELSE Undefined,
              !.innerRadius = IF c.type = "star" THEN @ ELSE Undefined,
              !.polygonPointCount = IF c.type = "polygon" THEN @ ELSE Undefined,
              !.text = IF c.type = "text" THEN @ ELSE Undefined,
              !.fontSize = IF c.type = "text" THEN @ ELSE Undefined,
              !.cornerRadius = IF c.type = "rectangle" THEN @ ELSE Undefined]

\* C20: the fields that do not apply to a config's type (pointCount and
\* innerRadius off a star, polygonPointCount off a polygon, text and fontSize
\* off a text, cornerRadius off a rectangle) never make generateShape fail and
\* never change what it produces: the request ends as the request for the same
\* config without those fields ends, with the same node.
C20_IrrelevantFieldsIgnored ==
    \A p \in Requests :
        (IsSingleRequest(p) /\ Settled(p)) =>
            LET bare == RunFrom(OnMessage(Env(NewFigma, {}), Pending,
                                          Single(Relevant(ShapeOf(p)))),
                                proc[p].error # FontLoadError)
            IN  /\ bare.l.pc = proc[p].pc
                /\ bare.l.error = proc[p].error
                /\ bare.l.newNodes = proc[p].newNodes
                /\ bare.h.nodes = figma.nodes
                /\ FigmaOf(bare.h) = figma
                /\ proc[p].pc = "failed" => proc[p].error = FontLoadError

C20_Witness ==
    /\ IsSingleRequest(1)
    /\ proc[1].pc = "done"
    /\ ShapeOf(1) = FieldShape("polygon", Flags)
    /\ Relevant(ShapeOf(1)) # ShapeOf(1)
    /\ NodeOf(1).pointCount = Assigned(Val(6))
    /\ NodeOf(1).cornerRadius = Untouched
    /\ NodeOf(1).characters = Untouched

\* the places on the page of the nodes ids
PlacesOf(ids) == {k \in 1 .. Len(figma.children) : \E j \in 1 .. Len(ids) : figma.children[k] = ids[j]}

\* the runs that have set the selection, in the order in which they did
Finishers == [k \in 1 .. Len(CallSeq(calls, "selection")) |-> CallSeq(calls, "selection")[k].by]

\* C21: with several batch requests in flight, the nodes of each completed
\* request lie on the page as one contiguous run in the request's own sorted
\* order, whatever the order in which the host created the nodes of the
\* requests; once every handler has ended, the selection and the viewport hold
\* exactly the nodes of the request that completed last.
C21_ContiguousRunsLastFinisherSelected ==
    (\A p \in Requests : IsBatchRequest(p)) =>
        /\ \A p \in Requests :
               proc[p].pc = "done" =>
                   LET out == proc[p].newNodes
                       at  == PlacesOf(out)
                   IN  /\ Cardinality(at) = Len(out)
                       /\ \A a, b \in at : \A k \in a .. b : k \in at
                       /\ SelectSeq(figma.children,
                                    LAMBDA id : \E j \in 1 .. Len(out) : out[j] = id) = out
                       /\ \A j \in 1 .. Len(out) :
                              figma.nodes[out[j]].x = Assigned(SortShapes(BatchOf(p))[j].x)
        /\ \A p \in Requests :
               proc[p].pc # "done" => PlacesOf(proc[p].nodes) = {}
        /\ Len(Finishers) = Cardinality({p \in Requests : proc[p].pc = "done"})
        /\ \A k \in 1 .. Len(Finishers) : proc[Finishers[k]].pc = "done"
        /\ Finishers # <<>> =>
               /\ figma.selection = proc[Finishers[Len(Finishers)]].newNodes
               /\ figma.viewport = proc[Finishers[Len(Finishers)]].newNodes
        /\ Finishers = <<>> => figma.selection = <<>>

C21_Witness ==
    /\ msg[1] = Batch(<<TextShape, LabelShape>>)
    /\ msg[2] = Batch(<<RectShape, TextShape>>)
    /\ proc[1].pc = "done" /\ proc[2].pc = "done"
    /\ Finishers = <<2, 1>>
    /\ figma.children = proc[2].newNodes \o proc[1].newNodes
    /\ figma.selection = proc[1].newNodes
    /\ proc[1].newNodes[1] < proc[2].newNodes[1]
    /\ proc[2].newNodes[1] < proc[1].newNodes[2]
    /\ proc[1].newNodes[2] < proc[2].newNodes[2]

====
